---- MODULE Spec2Model ----
(***************************************************************************)
(* Model of the tunnel server of src/server.go: the control accept loop,   *)
(* the control connection handler (handleClient), the host registry        *)
(* (hostConn guarded by hostConnMu), the dialer handed to the HTTP/2       *)
(* transport (DialTLS) and the proxy engine (proxy).                       *)
(*                                                                         *)
(* Three specifications share the registry:                                *)
(*   Spec      - accept loop and control connection handlers;              *)
(*   SpecReg   - addHostConn / deleteHostConn at the grain of the mutex;   *)
(*   SpecProxy - proxy operations at the grain of their two goroutines.    *)
(***************************************************************************)
EXTENDS Integers, Sequences, FiniteSets, TLC

(* ------------------------------ bounds --------------------------------- *)

\* control connections the listener accepts in one run
NConns == 3

Conns == 1..NConns

\* proxy operations started in one run
NOps == 2

Ops == 1..NOps

(* --------------------------- configuration ----------------------------- *)

\* ServerConfig.AllowedClients: the static allow-list, scanned in order
AllowedClients ==
    << [ID |-> "idA", Host |-> "a.example"],
       [ID |-> "idB", Host |-> "b.example"] >>

\* what a peer can present: an allowed identity, an identity that is not
\* on the list, or no readable certificate at all
Certs == {"idA", "idB", "idX", "nocert"}

Hosts == {AllowedClients[i].Host : i \in 1..Len(AllowedClients)}

\* peerID(conn): the identity of the leaf certificate, or an error
peerIDFails(cert) == cert = "nocert"

\* checkID: the first client of the allow-list whose ID equals id, as its
\* index in AllowedClients; 0 stands for (nil, false)
\* faulty variant: a scan that returns the first client whatever the id
checkIDAcceptAll(id) == 1

checkID(id) ==
    LET hits == {i \in 1..Len(AllowedClients) : AllowedClients[i].ID = id}
    IN  IF hits = {} THEN 0
        ELSE CHOOSE i \in hits : \A j \in hits : i <= j

\* hostPort: fmt.Sprint(host, ":443")
hostPort(host) == host \o ":443"

\* the address the transport hands to DialTLS for a request to url(host):
\* the URL's authority with the default https port
authorityAddr(host) == host \o ":443"

\* http.NewRequest(method, url(host), body) fails when the URL does not parse
validURL(host) == host \in {"a.example", "b.example"}

(* ------------------------------- state --------------------------------- *)

VARIABLES
    hostConn,    \* Server.hostConn: key -> control connection
    connClosed,  \* per control connection: closed (by the server or the peer)
    nAccepted,   \* control connections accepted so far by listenControl
    cert,        \* per connection: the certificate the peer presented
    pc,          \* per connection: where its handleClient goroutine stands
    client,      \* per connection: handleClient's local `client` (0 = nil)
    regErr,      \* per connection: the connection addHostConn found (0 = none)
    dialed,      \* per connection: the connection DialTLS gave its handshake
    hs,          \* per connection: outcome of the handshake round trip
    mu,          \* hostConnMu: 0 when free, else the caller holding it
    rclient,     \* per registry caller: the client it calls addHostConn for
    rpc,         \* per registry caller: where its call stands
    rres,        \* per registry caller: what addHostConn returned
    snap,        \* per registry caller: the registry when it took the lock
    opKind,      \* per proxy operation: "raw" (net.Conn) or "http" (request)
    opHost,      \* per proxy operation: the host it proxies to
    main,        \* per proxy operation: where proxy / remoteToLocal stands
    l2r,         \* per proxy operation: where the localToRemote goroutine stands
    peer,        \* per raw operation: what the local peer offers to Read
    pipe,        \* per proxy operation: the io.Pipe between the two directions
    localClosed, \* per proxy operation: the local unit was closed by proxy
    opErr,       \* per proxy operation: the failure it met, if any
    opDialed,    \* per proxy operation: the connection DialTLS gave it
    nDo,         \* per proxy operation: calls of httpClient.Do so far
    lnClosed,    \* Server.listener (the control listener) has been closed
    rawClosed,   \* the raw listener of a client has been closed by its owner
    ctlLoop,     \* listenControl: "running", or "exited" once it has returned
    rawLoop,     \* listen: "running", or "exited" once it has returned
    ctlFails,    \* failed Accepts of the open control listener so far
    rawFails,    \* failed Accepts of the open raw listener so far
    ctlSaw,      \* listenControl got an Accept error from the closed listener
    rawSaw,      \* listen got an Accept error from the closed listener
    ctlAfter,    \* failed Accepts that preceded the last accepted control conn
    rawAfter     \* failed Accepts that preceded the last accepted raw conn

ctlVars == <<nAccepted, cert, pc, client, regErr, dialed, hs>>
regVars == <<mu, rclient, rpc, rres, snap>>
prxVars ==
    <<opKind, opHost, main, l2r, peer, pipe, localClosed, opErr, opDialed, nDo>>
lifeVars ==
    <<lnClosed, rawClosed, ctlLoop, rawLoop, ctlFails, rawFails, ctlSaw, rawSaw,
      ctlAfter, rawAfter>>
vars == <<hostConn, connClosed, ctlVars, regVars, prxVars, lifeVars>>

(* ------------------------------ registry ------------------------------- *)

EmptyMap == [k \in {} |-> 0]

MapPut(m, key, conn) ==
    [k \in DOMAIN m \cup {key} |-> IF k = key THEN conn ELSE m[k]]

MapDelete(m, key) == [k \in DOMAIN m \ {key} |-> m[k]]

\* DialTLS: the registered connection for addr, 0 for "no connection for addr"
DialTLS(addr) == IF addr \in DOMAIN hostConn THEN hostConn[addr] ELSE 0

(* ------------------------- control connections ------------------------- *)

\* listenControl: Accept returns a connection; go handleClient(conn)
\* faulty variant: the loop calls handleClient itself instead of `go`
\* handleClient, so it accepts again only when that call has returned
ListenControlAcceptSync ==
    /\ ctlLoop = "running"
    /\ ~lnClosed
    /\ nAccepted < NConns
    /\ \A c \in 1..nAccepted : pc[c] \in {"active", "closed"}
    /\ \E crt \in Certs :
         /\ nAccepted' = nAccepted + 1
         /\ cert' = [cert EXCEPT ![nAccepted + 1] = crt]
         /\ pc' = [pc EXCEPT ![nAccepted + 1] = "auth"]
    /\ ctlAfter' = ctlFails
    /\ UNCHANGED <<hostConn, connClosed, client, regErr, dialed, hs>>
    /\ UNCHANGED <<regVars, prxVars>>
    /\ UNCHANGED <<lnClosed, rawClosed, ctlLoop, rawLoop, ctlFails, rawFails,
                   ctlSaw, rawSaw, rawAfter>>

ListenControlAccept ==
    /\ ctlLoop = "running"
    /\ ~lnClosed
    /\ nAccepted < NConns
    /\ \E crt \in Certs :
         /\ nAccepted' = nAccepted + 1
         /\ cert' = [cert EXCEPT ![nAccepted + 1] = crt]
         /\ pc' = [pc EXCEPT ![nAccepted + 1] = "auth"]
    /\ ctlAfter' = ctlFails
    /\ UNCHANGED <<hostConn, connClosed, client, regErr, dialed, hs>>
    /\ UNCHANGED <<regVars, prxVars>>
    /\ UNCHANGED <<lnClosed, rawClosed, ctlLoop, rawLoop, ctlFails, rawFails,
                   ctlSaw, rawSaw, rawAfter>>

\* handleClient up to addHostConn: peerID, checkID, NewRequest, SetDeadline.
\* All of it is local to the connection.
HandleAuth(c) ==
    /\ pc[c] = "auth"
    /\ IF peerIDFails(cert[c])
       THEN /\ pc' = [pc EXCEPT ![c] = "reject"]
            /\ UNCHANGED client
       ELSE LET cl == checkID(cert[c]) IN
            /\ client' = [client EXCEPT ![c] = cl]
            /\ IF cl = 0
               THEN pc' = [pc EXCEPT ![c] = "reject"]
               ELSE IF ~validURL(AllowedClients[cl].Host)
                    THEN pc' = [pc EXCEPT ![c] = "reject"]
                    ELSE pc' = [pc EXCEPT ![c] = "addHostConn"]
    /\ UNCHANGED <<hostConn, connClosed, nAccepted, cert, regErr, dialed, hs>>
    /\ UNCHANGED <<regVars, prxVars, lifeVars>>

\* addHostConn under hostConnMu: test and set
HandleAddHostConn(c) ==
    /\ pc[c] = "addHostConn"
    /\ LET key == hostPort(AllowedClients[client[c]].Host) IN
       IF key \in DOMAIN hostConn
       THEN /\ regErr' = [regErr EXCEPT ![c] = hostConn[key]]
            /\ pc' = [pc EXCEPT ![c] = "reject"]
            /\ UNCHANGED hostConn
       ELSE /\ hostConn' = MapPut(hostConn, key, c)
            /\ pc' = [pc EXCEPT ![c] = "do"]
            /\ UNCHANGED regErr
    /\ UNCHANGED <<connClosed, nAccepted, cert, client, dialed, hs>>
    /\ UNCHANGED <<regVars, prxVars, lifeVars>>

\* httpClient.Do(req), first half: the transport dials the client's address
HandleDo(c) ==
    /\ pc[c] = "do"
    /\ LET conn == DialTLS(authorityAddr(AllowedClients[client[c]].Host)) IN
       IF conn = 0
       THEN /\ hs' = [hs EXCEPT ![c] = "err"]
            /\ pc' = [pc EXCEPT ![c] = "reject"]
            /\ UNCHANGED dialed
       ELSE /\ dialed' = [dialed EXCEPT ![c] = conn]
            /\ pc' = [pc EXCEPT ![c] = "await"]
            /\ UNCHANGED hs
    /\ UNCHANGED <<hostConn, connClosed, nAccepted, cert, client, regErr>>
    /\ UNCHANGED <<regVars, prxVars, lifeVars>>

\* the peer of the dialed connection answers the open-session request over
\* the multiplexed transport, or the transport reports an error
PeerAnswer(c) ==
    /\ pc[c] = "await"
    /\ hs[c] = "none"
    /\ \E status \in {"200", "500", "err"} :
         /\ connClosed[dialed[c]] => status = "err"
         /\ hs' = [hs EXCEPT ![c] = status]
    /\ UNCHANGED <<hostConn, connClosed, nAccepted, cert, pc, client, regErr, dialed>>
    /\ UNCHANGED <<regVars, prxVars, lifeVars>>

\* faulty variant: httpClient.Do gives up by itself when no answer has come
HandleRespTimeout(c) ==
    /\ pc[c] = "await"
    /\ IF hs[c] = "none"
       THEN /\ hs' = [hs EXCEPT ![c] = "err"]
            /\ pc' = [pc EXCEPT ![c] = "reject"]
       ELSE /\ pc' = [pc EXCEPT ![c] = IF hs[c] = "200" THEN "active" ELSE "reject"]
            /\ UNCHANGED hs
    /\ UNCHANGED <<hostConn, connClosed, nAccepted, cert, client, regErr, dialed>>
    /\ UNCHANGED <<regVars, prxVars, lifeVars>>

\* httpClient.Do(req), second half: Do returns once the answer or the
\* transport error is there, and handleClient tests err and StatusCode
HandleResp(c) ==
    /\ pc[c] = "await"
    /\ hs[c] # "none"
    /\ pc' = [pc EXCEPT ![c] = IF hs[c] = "200" THEN "active" ELSE "reject"]
    /\ UNCHANGED <<hostConn, connClosed, nAccepted, cert, client, regErr, dialed, hs>>
    /\ UNCHANGED <<regVars, prxVars, lifeVars>>

\* reject: conn.Close()
HandleRejectClose(c) ==
    /\ pc[c] = "reject"
    /\ connClosed' = [connClosed EXCEPT ![c] = TRUE]
    /\ pc' = [pc EXCEPT ![c] = IF client[c] # 0 THEN "delete" ELSE "closed"]
    /\ UNCHANGED <<hostConn, nAccepted, cert, client, regErr, dialed, hs>>
    /\ UNCHANGED <<regVars, prxVars, lifeVars>>

\* faulty variant: a reject path that forgets deleteHostConn
RejectDeleteSkipped(c) ==
    /\ pc[c] = "delete"
    /\ pc' = [pc EXCEPT ![c] = "closed"]
    /\ UNCHANGED <<hostConn, connClosed, nAccepted, cert, client, regErr, dialed, hs>>
    /\ UNCHANGED <<regVars, prxVars, lifeVars>>

\* reject: if client != nil { deleteHostConn(client.Host) }
HandleRejectDelete(c) ==
    /\ pc[c] = "delete"
    /\ hostConn' = MapDelete(hostConn, hostPort(AllowedClients[client[c]].Host))
    /\ pc' = [pc EXCEPT ![c] = "closed"]
    /\ UNCHANGED <<connClosed, nAccepted, cert, client, regErr, dialed, hs>>
    /\ UNCHANGED <<regVars, prxVars, lifeVars>>

\* the peer closes a control connection that passed authentication, or the
\* connection fails; no code of the server runs in response
ConnError(c) ==
    /\ pc[c] \in {"addHostConn", "do", "await", "active"}
    /\ ~connClosed[c]
    /\ connClosed' = [connClosed EXCEPT ![c] = TRUE]
    /\ UNCHANGED <<hostConn, ctlVars>>
    /\ UNCHANGED <<regVars, prxVars, lifeVars>>

\* NewServer: an empty registry, nothing accepted yet
CtlInit ==
    /\ hostConn = EmptyMap
    /\ connClosed = [c \in Conns |-> FALSE]
    /\ nAccepted = 0
    /\ cert = [c \in Conns |-> "nocert"]
    /\ pc = [c \in Conns |-> "idle"]
    /\ client = [c \in Conns |-> 0]
    /\ regErr = [c \in Conns |-> 0]
    /\ dialed = [c \in Conns |-> 0]
    /\ hs = [c \in Conns |-> "none"]

\* no caller inside the registry at the grain of the mutex
RegIdle ==
    /\ mu = 0
    /\ rclient = [c \in Conns |-> 1]
    /\ rpc = [c \in Conns |-> "idle"]
    /\ rres = [c \in Conns |-> "none"]
    /\ snap = [c \in Conns |-> EmptyMap]

\* no proxy operation started
PrxIdle ==
    /\ opKind = [o \in Ops |-> "none"]
    /\ opHost = [o \in Ops |-> ""]
    /\ main = [o \in Ops |-> "idle"]
    /\ l2r = [o \in Ops |-> "idle"]
    /\ peer = [o \in Ops |-> "open"]
    /\ pipe = [o \in Ops |-> "open"]
    /\ localClosed = [o \in Ops |-> FALSE]
    /\ opErr = [o \in Ops |-> "none"]
    /\ opDialed = [o \in Ops |-> 0]
    /\ nDo = [o \in Ops |-> 0]

\* after NewServer and Start: listeners open, both kinds of accept loop running
LifeIdle ==
    /\ lnClosed = FALSE
    /\ rawClosed = FALSE
    /\ ctlLoop = "running"
    /\ rawLoop = "running"
    /\ ctlFails = 0
    /\ rawFails = 0
    /\ ctlSaw = FALSE
    /\ rawSaw = FALSE
    /\ ctlAfter = 0
    /\ rawAfter = 0

Init == CtlInit /\ RegIdle /\ PrxIdle /\ LifeIdle

Next ==
    \/ ListenControlAccept
    \/ \E c \in Conns : HandleAuth(c)
    \/ \E c \in Conns : HandleAddHostConn(c)
    \/ \E c \in Conns : HandleDo(c)
    \/ \E c \in Conns : PeerAnswer(c)
    \/ \E c \in Conns : HandleResp(c)
    \/ \E c \in Conns : HandleRejectClose(c)
    \/ \E c \in Conns : HandleRejectDelete(c)
    \/ \E c \in Conns : ConnError(c)

Spec == Init /\ [][Next]_vars

(* -------------------- the registry under hostConnMu -------------------- *)
(* Every caller c stands for a goroutine that calls addHostConn(client, c) *)
(* and may later call deleteHostConn(client.Host), as handleClient does.   *)

RegKey(c) == hostPort(AllowedClients[rclient[c]].Host)

\* faulty variant: addHostConn entered without waiting for the mutex
RegLockNoMutex(c) ==
    /\ rpc[c] = "call"
    /\ mu' = c
    /\ snap' = [snap EXCEPT ![c] = hostConn]
    /\ rpc' = [rpc EXCEPT ![c] = "check"]
    /\ UNCHANGED <<hostConn, connClosed, ctlVars, rclient, rres>>
    /\ UNCHANGED <<prxVars, lifeVars>>

\* hostConnMu.Lock() of addHostConn
RegLock(c) ==
    /\ rpc[c] = "call"
    /\ mu = 0
    /\ mu' = c
    /\ snap' = [snap EXCEPT ![c] = hostConn]
    /\ rpc' = [rpc EXCEPT ![c] = "check"]
    /\ UNCHANGED <<hostConn, connClosed, ctlVars, rclient, rres>>
    /\ UNCHANGED <<prxVars, lifeVars>>

\* faulty variant: addHostConn without the test, so that it overwrites
RegCheckNoTest(c) ==
    /\ rpc[c] = "check"
    /\ rpc' = [rpc EXCEPT ![c] = "store"]
    /\ UNCHANGED <<hostConn, connClosed, ctlVars, mu, rclient, rres, snap>>
    /\ UNCHANGED <<prxVars, lifeVars>>

\* if c, ok := s.hostConn[key]; ok { return fmt.Errorf(...) }
RegCheck(c) ==
    /\ rpc[c] = "check"
    /\ IF RegKey(c) \in DOMAIN hostConn
       THEN /\ rres' = [rres EXCEPT ![c] = "AlreadyRegistered"]
            /\ rpc' = [rpc EXCEPT ![c] = "unlock"]
       ELSE /\ rpc' = [rpc EXCEPT ![c] = "store"]
            /\ UNCHANGED rres
    /\ UNCHANGED <<hostConn, connClosed, ctlVars, mu, rclient, snap>>
    /\ UNCHANGED <<prxVars, lifeVars>>

\* s.hostConn[key] = conn; return nil
RegStore(c) ==
    /\ rpc[c] = "store"
    /\ hostConn' = MapPut(hostConn, RegKey(c), c)
    /\ rres' = [rres EXCEPT ![c] = "ok"]
    /\ rpc' = [rpc EXCEPT ![c] = "unlock"]
    /\ UNCHANGED <<connClosed, ctlVars, mu, rclient, snap>>
    /\ UNCHANGED <<prxVars, lifeVars>>

\* defer s.hostConnMu.Unlock(): addHostConn returns
RegUnlock(c) ==
    /\ rpc[c] = "unlock"
    /\ mu' = 0
    /\ rpc' = [rpc EXCEPT ![c] = "returned"]
    /\ UNCHANGED <<hostConn, connClosed, ctlVars, rclient, rres, snap>>
    /\ UNCHANGED <<prxVars, lifeVars>>

\* deleteHostConn: s.hostConnMu.Lock()
DelLock(c) ==
    /\ rpc[c] = "returned"
    /\ mu = 0
    /\ mu' = c
    /\ rpc' = [rpc EXCEPT ![c] = "delete"]
    /\ UNCHANGED <<hostConn, connClosed, ctlVars, rclient, rres, snap>>
    /\ UNCHANGED <<prxVars, lifeVars>>

\* delete(s.hostConn, hostPort(host))
\* faulty variant: deletes the bare host instead of hostPort(host)
DelDeleteBareHost(c) ==
    /\ rpc[c] = "delete"
    /\ hostConn' = MapDelete(hostConn, AllowedClients[rclient[c]].Host)
    /\ rpc' = [rpc EXCEPT ![c] = "delUnlock"]
    /\ UNCHANGED <<connClosed, ctlVars, mu, rclient, rres, snap>>
    /\ UNCHANGED <<prxVars, lifeVars>>

DelDelete(c) ==
    /\ rpc[c] = "delete"
    /\ hostConn' = MapDelete(hostConn, RegKey(c))
    /\ rpc' = [rpc EXCEPT ![c] = "delUnlock"]
    /\ UNCHANGED <<connClosed, ctlVars, mu, rclient, rres, snap>>
    /\ UNCHANGED <<prxVars, lifeVars>>

\* s.hostConnMu.Unlock(): deleteHostConn returns
DelUnlock(c) ==
    /\ rpc[c] = "delUnlock"
    /\ mu' = 0
    /\ rpc' = [rpc EXCEPT ![c] = "deleted"]
    /\ UNCHANGED <<hostConn, connClosed, ctlVars, rclient, rres, snap>>
    /\ UNCHANGED <<prxVars, lifeVars>>

\* an empty registry and NConns authenticated handlers about to register,
\* each for one of the allowed clients
InitReg ==
    /\ CtlInit
    /\ PrxIdle
    /\ LifeIdle
    /\ mu = 0
    /\ rclient \in [Conns -> 1..Len(AllowedClients)]
    /\ rpc = [c \in Conns |-> "call"]
    /\ rres = [c \in Conns |-> "none"]
    /\ snap = [c \in Conns |-> EmptyMap]

NextReg ==
    \/ \E c \in Conns : RegLock(c)
    \/ \E c \in Conns : RegCheck(c)
    \/ \E c \in Conns : RegStore(c)
    \/ \E c \in Conns : RegUnlock(c)
    \/ \E c \in Conns : DelLock(c)
    \/ \E c \in Conns : DelDelete(c)
    \/ \E c \in Conns : DelUnlock(c)

SpecReg == InitReg /\ [][NextReg]_vars

(* ------------------------- registry: claims ---------------------------- *)

\* C2: a call of addHostConn returns success exactly when the registry
\* held no entry for its key when the call took the lock; a failed call
\* returns with the registry as it was then (the prior entry still mapped
\* to the prior connection), a successful one with just its entry added.
C2_RegisterTestAndSet ==
    [][\A c \in Conns :
         (rpc[c] = "unlock" /\ rpc'[c] = "returned") =>
            LET k == RegKey(c) IN
            /\ (rres[c] = "ok") <=> (k \notin DOMAIN snap[c])
            /\ (rres[c] # "ok") =>
                  /\ hostConn' = snap[c]
                  /\ hostConn'[k] = snap[c][k]
            /\ (rres[c] = "ok") => hostConn' = MapPut(snap[c], k, c)
      ]_vars

\* a call failed on an occupied key, and a call succeeded on a key that an
\* earlier deleteHostConn had emptied again
C2_Witness ==
    \E c, d, e \in Conns :
        /\ RegKey(c) = RegKey(d) /\ RegKey(d) = RegKey(e)
        /\ rres[c] = "ok" /\ rpc[c] = "returned"
        /\ rres[d] = "AlreadyRegistered" /\ rpc[d] = "deleted"
        /\ rres[e] = "ok" /\ rpc[e] = "returned"
        /\ c # e
        /\ hostConn[RegKey(e)] \in {c, e}

Callers(k) == {c \in Conns : RegKey(c) = k}

RegPhase == {"call", "check", "store", "unlock", "returned"}

Returned(k, res) == {c \in Callers(k) : rpc[c] = "returned" /\ rres[c] = res}

\* C3: among the concurrent addHostConn calls for one key on a slot that
\* starts empty (and that no deleteHostConn has touched), at most one has
\* returned success; once all N have returned, exactly one succeeded, the
\* other N-1 failed with AlreadyRegistered, and the entry maps to the
\* connection of the successful call.
C3_ExactlyOneWinner ==
    \A k \in {hostPort(h) : h \in Hosts} :
        (\A c \in Callers(k) : rpc[c] \in RegPhase) =>
            /\ Cardinality(Returned(k, "ok")) <= 1
            /\ \A c \in Returned(k, "ok") :
                  k \in DOMAIN hostConn /\ hostConn[k] = c
            /\ (Callers(k) # {} /\ \A c \in Callers(k) : rpc[c] = "returned") =>
                  /\ Cardinality(Returned(k, "ok")) = 1
                  /\ Cardinality(Returned(k, "AlreadyRegistered"))
                        = Cardinality(Callers(k)) - 1

\* all the callers registered for the same key and all have returned
C3_Witness ==
    \E k \in {hostPort(h) : h \in Hosts} :
        /\ Callers(k) = Conns
        /\ \A c \in Conns : rpc[c] = "returned"
        /\ Cardinality(Returned(k, "AlreadyRegistered")) >= 2


(* ------------------------ control plane: claims ------------------------ *)

HostKey(c) == hostPort(AllowedClients[client[c]].Host)

\* the registry maps the host key of connection c to c
RegisteredTo(c) ==
    /\ client[c] # 0
    /\ HostKey(c) \in DOMAIN hostConn
    /\ hostConn[HostKey(c)] = c

\* no entry of the registry maps to connection c
NoEntryMapsTo(c) == \A k \in DOMAIN hostConn : hostConn[k] # c

Allowed(crt) == \E i \in 1..Len(AllowedClients) : AllowedClients[i].ID = crt

\* C1: while a first connection c1 is registered and Active, the handler of
\* a second connection c2 for the same host that addHostConn refused ends
\* with c2 closed and with the entry of c1 untouched: still present, still
\* mapped to c1, and still what the dialer returns for the host.
C1_DuplicateLeavesEntry ==
    [][\A c1, c2 \in Conns :
         ( /\ c1 # c2
           /\ pc[c1] = "active" /\ ~connClosed[c1] /\ RegisteredTo(c1)
           /\ regErr[c2] = c1
           /\ pc[c2] # "closed" /\ pc'[c2] = "closed" )
         => ( /\ connClosed'[c2]
              /\ RegisteredTo(c1)'
              /\ DialTLS(authorityAddr(AllowedClients[client[c1]].Host))' = c1 )
      ]_vars

\* C4: a control connection that is Active (its handler logged the client
\* as connected and returned, and the connection is not closed) has a
\* registry entry for its host key mapped to it, and its handshake round
\* trip returned status 200.
C4_ActiveIsRegistered ==
    \A c \in Conns :
        (pc[c] = "active" /\ ~connClosed[c])
        => (RegisteredTo(c) /\ hs[c] = "200")

\* C5: a control connection that is Closed (the connection is closed and
\* its handler has returned), reached from any state including Active, has
\* no registry entry mapped to it.
C5_ClosedHasNoEntry ==
    \A c \in Conns :
        (connClosed[c] /\ pc[c] \in {"active", "closed"}) => NoEntryMapsTo(c)

C7_HandshakeFailureCleansUp ==
    \A c \in Conns :
        (pc[c] = "closed" /\ hs[c] \in {"err", "500"})
        => (connClosed[c] /\ NoEntryMapsTo(c))

\* a connection registered, its handshake answered with a status other
\* than 200, and its handler finished
C7_Witness ==
    \E c \in Conns : pc[c] = "closed" /\ hs[c] = "500" /\ regErr[c] = 0

(* --------------------------- proxy operations -------------------------- *)
(* One operation o is one call of proxy(host, w, r, msg): from listen for  *)
(* a raw connection (w and r are the net.Conn), from ServeHTTP for an HTTP *)
(* request (w the ResponseWriter, r the *http.Request, Host without port). *)
(* main[o] follows proxy and remoteToLocal, which runs on proxy's own      *)
(* goroutine; l2r[o] follows the goroutine started by `go localToRemote()`.*)

\* r.(io.Closer): a net.Conn is one, an *http.Request is not
IsCloser(kind) == kind = "raw"

\* the transport has the request stream open and reads the body from pr
BodyRead(o) == main[o] \in {"roundtrip", "transfer"}

\* listen: go s.proxy(client.Host, conn, conn, msg); ServeHTTP:
\* s.proxy(trimPort(r.Host), w, r, msg).  proxy up to `go localToRemote()`:
\* the deferred closes are registered, the pipe and the request are built.
\* entry of proxy(host, w, r, msg) for operation o
ProxyBegin(o, kind, host) ==
    /\ main[o] = "idle"
    /\ IF o = 1 THEN TRUE ELSE main[o - 1] # "idle"
    /\ opKind' = [opKind EXCEPT ![o] = kind]
    /\ opHost' = [opHost EXCEPT ![o] = host]
    /\ IF validURL(host)
       THEN /\ main' = [main EXCEPT ![o] = "do"]
            /\ l2r' = [l2r EXCEPT ![o] = IF kind = "raw" THEN "read" ELSE "write"]
            /\ UNCHANGED <<pipe, localClosed, opErr>>
       ELSE /\ main' = [main EXCEPT ![o] = "done"]
            /\ pipe' = [pipe EXCEPT ![o] = "rclosed"]
            /\ localClosed' = [localClosed EXCEPT ![o] = IsCloser(kind)]
            /\ opErr' = [opErr EXCEPT ![o] = "RequestCreation"]
            /\ UNCHANGED l2r
    /\ UNCHANGED <<hostConn, connClosed, ctlVars, regVars, peer, opDialed, nDo>>

ProxyStart(o) ==
    /\ \E kind \in {"raw", "http"}, host \in Hosts : ProxyBegin(o, kind, host)
    /\ UNCHANGED lifeVars

\* remoteToLocal: s.httpClient.Do(req), the transport dials the host
\* faulty variant: a failed dial is retried instead of aborting the operation
ProxyDoRetry(o) ==
    /\ main[o] = "do"
    /\ LET conn == DialTLS(authorityAddr(opHost[o])) IN
       IF conn = 0
       THEN /\ opErr' = [opErr EXCEPT ![o] = "NoRouteToClient"]
            /\ main' = [main EXCEPT ![o] = "do"]
            /\ UNCHANGED opDialed
       ELSE /\ opDialed' = [opDialed EXCEPT ![o] = conn]
            /\ main' = [main EXCEPT ![o] = "roundtrip"]
            /\ UNCHANGED opErr
    /\ nDo' = [nDo EXCEPT ![o] = nDo[o] + 1]
    /\ UNCHANGED <<hostConn, connClosed, ctlVars, regVars, lifeVars>>
    /\ UNCHANGED <<opKind, opHost, l2r, peer, pipe, localClosed>>

ProxyDo(o) ==
    /\ main[o] = "do"
    /\ LET conn == DialTLS(authorityAddr(opHost[o])) IN
       IF conn = 0
       THEN /\ opErr' = [opErr EXCEPT ![o] = "NoRouteToClient"]
            /\ main' = [main EXCEPT ![o] = "wait"]
            /\ UNCHANGED opDialed
       ELSE /\ opDialed' = [opDialed EXCEPT ![o] = conn]
            /\ main' = [main EXCEPT ![o] = "roundtrip"]
            /\ UNCHANGED opErr
    /\ nDo' = [nDo EXCEPT ![o] = nDo[o] + 1]
    /\ UNCHANGED <<hostConn, connClosed, ctlVars, regVars, lifeVars>>
    /\ UNCHANGED <<opKind, opHost, l2r, peer, pipe, localClosed>>

\* faulty variant: a failed round trip that closes the control connection
RemoteRespondClosesConn(o) ==
    /\ main[o] = "roundtrip"
    /\ \E outcome \in {"resp", "err"} :
         /\ connClosed[opDialed[o]] => outcome = "err"
         /\ IF outcome = "resp"
            THEN /\ main' = [main EXCEPT ![o] = "transfer"]
                 /\ UNCHANGED <<opErr, connClosed>>
            ELSE /\ main' = [main EXCEPT ![o] = "wait"]
                 /\ opErr' = [opErr EXCEPT ![o] = "RoundTrip"]
                 /\ connClosed' = [connClosed EXCEPT ![opDialed[o]] = TRUE]
    /\ UNCHANGED <<hostConn, ctlVars, regVars, lifeVars>>
    /\ UNCHANGED <<opKind, opHost, l2r, peer, pipe, localClosed, opDialed, nDo>>

\* remoteToLocal: Do returns a response, or an error (log and return)
RemoteRespond(o) ==
    /\ main[o] = "roundtrip"
    /\ \E outcome \in {"resp", "err"} :
         /\ connClosed[opDialed[o]] => outcome = "err"
         /\ IF outcome = "resp"
            THEN /\ main' = [main EXCEPT ![o] = "transfer"]
                 /\ UNCHANGED opErr
            ELSE /\ main' = [main EXCEPT ![o] = "wait"]
                 /\ opErr' = [opErr EXCEPT ![o] = "RoundTrip"]
    /\ UNCHANGED <<hostConn, connClosed, ctlVars, regVars, lifeVars>>
    /\ UNCHANGED <<opKind, opHost, l2r, peer, pipe, localClosed, opDialed, nDo>>

\* remoteToLocal: http.ReadResponse for an HTTP unit, then transfer of the
\* response body to the local unit until the remote ends it or a copy fails
RemoteFinish(o) ==
    /\ main[o] = "transfer"
    /\ \E outcome \in {"eof", "Copy", "Parse"} :
         /\ outcome = "Parse" => opKind[o] = "http"
         /\ main' = [main EXCEPT ![o] = "wait"]
         /\ opErr' = [opErr EXCEPT ![o] = IF outcome = "eof" THEN @ ELSE outcome]
    /\ UNCHANGED <<hostConn, connClosed, ctlVars, regVars, lifeVars>>
    /\ UNCHANGED <<opKind, opHost, l2r, peer, pipe, localClosed, opDialed, nDo>>

\* transfer's copy loop: a Read of the source returns once the peer has
\* sent bytes or has closed, and not before
transferReadReturns(peerState) == peerState \in {"data", "eof"}

\* localToRemote, raw: transfer("local to remote", pw, r, log) reads from
\* the local connection
L2RRead(o) ==
    /\ l2r[o] = "read"
    /\ transferReadReturns(peer[o])
    /\ IF peer[o] = "data"
       THEN /\ l2r' = [l2r EXCEPT ![o] = "write"]
            /\ peer' = [peer EXCEPT ![o] = "open"]
       ELSE /\ l2r' = [l2r EXCEPT ![o] = "done"]
            /\ UNCHANGED peer
    /\ UNCHANGED <<hostConn, connClosed, ctlVars, regVars, lifeVars>>
    /\ UNCHANGED <<opKind, opHost, main, pipe, localClosed, opErr, opDialed, nDo>>

\* faulty variant: the pipe buffers, a write returns without a reader
L2RWriteBuffered(o) ==
    /\ l2r[o] = "write"
    /\ \/ /\ pipe[o] = "rclosed"
          /\ l2r' = [l2r EXCEPT ![o] = "done"]
          /\ opErr' = [opErr EXCEPT ![o] = IF @ = "none" THEN "Copy" ELSE @]
          /\ UNCHANGED pipe
       \/ /\ pipe[o] = "open"
          /\ IF opKind[o] = "raw"
             THEN /\ l2r' = [l2r EXCEPT ![o] = "read"]
                  /\ UNCHANGED pipe
             ELSE /\ l2r' = [l2r EXCEPT ![o] = "done"]
                  /\ pipe' = [pipe EXCEPT ![o] = "wclosed"]
          /\ UNCHANGED opErr
    /\ UNCHANGED <<hostConn, connClosed, ctlVars, regVars, lifeVars>>
    /\ UNCHANGED <<opKind, opHost, main, peer, localClosed, opDialed, nDo>>

\* localToRemote: a write into pw returns when the body reader has taken
\* the bytes, or with an error when the read side is closed.  Raw: transfer
\* goes on reading, or ends on the error.  HTTP: hr.Write(pw); pw.Close().
\* Then close(localToRemoteDone).
L2RWrite(o) ==
    /\ l2r[o] = "write"
    /\ \/ /\ pipe[o] = "rclosed"
          /\ l2r' = [l2r EXCEPT ![o] = "done"]
          /\ opErr' = [opErr EXCEPT ![o] = IF @ = "none" THEN "Copy" ELSE @]
          /\ UNCHANGED pipe
       \/ /\ pipe[o] = "open"
          /\ BodyRead(o)
          /\ IF opKind[o] = "raw"
             THEN /\ l2r' = [l2r EXCEPT ![o] = "read"]
                  /\ UNCHANGED pipe
             ELSE /\ l2r' = [l2r EXCEPT ![o] = "done"]
                  /\ pipe' = [pipe EXCEPT ![o] = "wclosed"]
          /\ UNCHANGED opErr
    /\ UNCHANGED <<hostConn, connClosed, ctlVars, regVars, lifeVars>>
    /\ UNCHANGED <<opKind, opHost, main, peer, localClosed, opDialed, nDo>>

\* faulty variant: proxy returns without receiving from localToRemoteDone
ProxyReturnNoWait(o) ==
    /\ main[o] = "wait"
    /\ main' = [main EXCEPT ![o] = "done"]
    /\ pipe' = [pipe EXCEPT ![o] = "rclosed"]
    /\ localClosed' = [localClosed EXCEPT ![o] = IsCloser(opKind[o])]
    /\ UNCHANGED <<hostConn, connClosed, ctlVars, regVars, lifeVars>>
    /\ UNCHANGED <<opKind, opHost, l2r, peer, opErr, opDialed, nDo>>

\* proxy: <-localToRemoteDone, then the deferred pw.Close(), pr.Close() and
\* c.Close() when r is an io.Closer
ProxyReturn(o) ==
    /\ main[o] = "wait"
    /\ l2r[o] = "done"
    /\ main' = [main EXCEPT ![o] = "done"]
    /\ pipe' = [pipe EXCEPT ![o] = "rclosed"]
    /\ localClosed' = [localClosed EXCEPT ![o] = IsCloser(opKind[o])]
    /\ UNCHANGED <<hostConn, connClosed, ctlVars, regVars, lifeVars>>
    /\ UNCHANGED <<opKind, opHost, l2r, peer, opErr, opDialed, nDo>>

\* the steps of operation o that the server's own code takes
ProxyCode(o) == ProxyDo(o) \/ L2RRead(o) \/ L2RWrite(o) \/ ProxyReturn(o)

\* the local peer of a raw connection sends bytes; what it sends while no
\* Read is pending waits in the socket, which is the same as sending it
\* once the next Read is pending
PeerSend(o) ==
    /\ opKind[o] = "raw"
    /\ l2r[o] = "read"
    /\ peer[o] = "open"
    /\ peer' = [peer EXCEPT ![o] = "data"]
    /\ UNCHANGED <<hostConn, connClosed, ctlVars, regVars, lifeVars>>
    /\ UNCHANGED <<opKind, opHost, main, l2r, pipe, localClosed, opErr, opDialed, nDo>>

\* the local peer of a raw connection closes it (seen by the pending Read)
PeerClose(o) ==
    /\ opKind[o] = "raw"
    /\ l2r[o] = "read"
    /\ peer[o] = "open"
    /\ peer' = [peer EXCEPT ![o] = "eof"]
    /\ UNCHANGED <<hostConn, connClosed, ctlVars, regVars, lifeVars>>
    /\ UNCHANGED <<opKind, opHost, main, l2r, pipe, localClosed, opErr, opDialed, nDo>>

\* the transport closes the request body (pr) once the round trip is over;
\* whether and when it does is up to the transport
TransportCloseBody(o) ==
    /\ main[o] = "wait"
    /\ pipe[o] = "open"
    /\ pipe' = [pipe EXCEPT ![o] = "rclosed"]
    /\ UNCHANGED <<hostConn, connClosed, ctlVars, regVars, lifeVars>>
    /\ UNCHANGED <<opKind, opHost, main, l2r, peer, localClosed, opErr, opDialed, nDo>>

\* the control plane after the handler of connection 1 (identity idA)
\* registered, got status 200 and returned
(***************************************************************************)
(* Listeners and accept loops.  MaxAcceptFails bounds the transient Accept *)
(* errors counted on an open listener.  Accept on a closed listener fails  *)
(* every time it is called.                                                *)
(***************************************************************************)
MaxAcceptFails == 2

\* the allowed client that has a raw listener in its Listeners
ListenerClient == CHOOSE i \in 1..Len(AllowedClients) : AllowedClients[i].Host = "a.example"

\* faulty variant: Close also empties the registry, closes the control
\* connections and aborts the proxy operations
ServerCloseAll ==
    /\ lnClosed' = TRUE
    /\ hostConn' = EmptyMap
    /\ connClosed' = [c \in Conns |-> c <= nAccepted]
    /\ main' = [o \in Ops |-> IF main[o] = "idle" THEN "idle" ELSE "done"]
    /\ UNCHANGED <<ctlVars, regVars>>
    /\ UNCHANGED <<opKind, opHost, l2r, peer, pipe, localClosed, opErr, opDialed, nDo>>
    /\ UNCHANGED <<rawClosed, ctlLoop, rawLoop, ctlFails, rawFails, ctlSaw, rawSaw,
                   ctlAfter, rawAfter>>

\* Server.Close
ServerClose ==
    /\ lnClosed' = TRUE
    /\ UNCHANGED <<hostConn, connClosed, ctlVars, regVars, prxVars>>
    /\ UNCHANGED <<rawClosed, ctlLoop, rawLoop, ctlFails, rawFails, ctlSaw, rawSaw,
                   ctlAfter, rawAfter>>

\* faulty variant: listenControl returns on an Accept error
ListenControlAcceptFailReturns ==
    /\ ctlLoop = "running"
    /\ lnClosed \/ ctlFails < MaxAcceptFails
    /\ ctlFails' = IF lnClosed THEN ctlFails ELSE ctlFails + 1
    /\ ctlSaw' = (ctlSaw \/ lnClosed)
    /\ ctlLoop' = "exited"
    /\ UNCHANGED <<hostConn, connClosed, ctlVars, regVars, prxVars>>
    /\ UNCHANGED <<lnClosed, rawClosed, rawLoop, rawFails, rawSaw, ctlAfter, rawAfter>>

\* listenControl: Accept returned an error; it is logged and the loop continues
ListenControlAcceptFail ==
    /\ ctlLoop = "running"
    /\ lnClosed \/ ctlFails < MaxAcceptFails
    /\ ctlFails' = IF lnClosed THEN ctlFails ELSE ctlFails + 1
    /\ ctlSaw' = (ctlSaw \/ lnClosed)
    /\ ctlLoop' = ctlLoop
    /\ UNCHANGED <<hostConn, connClosed, ctlVars, regVars, prxVars>>
    /\ UNCHANGED <<lnClosed, rawClosed, rawLoop, rawFails, rawSaw, ctlAfter, rawAfter>>

\* listen: a raw connection is accepted and proxy is started for it
ListenAccept(o) ==
    /\ rawLoop = "running"
    /\ ~rawClosed
    /\ ProxyBegin(o, "raw", AllowedClients[ListenerClient].Host)
    /\ rawAfter' = rawFails
    /\ UNCHANGED <<lnClosed, rawClosed, ctlLoop, rawLoop, ctlFails, rawFails,
                   ctlSaw, rawSaw, ctlAfter>>

\* listen: Accept returned an error; it is logged and the loop continues
ListenAcceptFail ==
    /\ rawLoop = "running"
    /\ rawClosed \/ rawFails < MaxAcceptFails
    /\ rawFails' = IF rawClosed THEN rawFails ELSE rawFails + 1
    /\ rawSaw' = (rawSaw \/ rawClosed)
    /\ rawLoop' = rawLoop
    /\ UNCHANGED <<hostConn, connClosed, ctlVars, regVars, prxVars>>
    /\ UNCHANGED <<lnClosed, rawClosed, ctlLoop, ctlFails, ctlSaw, ctlAfter, rawAfter>>

\* the owner of a raw listener (the configuration's caller) closes it
RawListenerClose ==
    /\ ~rawClosed
    /\ rawClosed' = TRUE
    /\ UNCHANGED <<hostConn, connClosed, ctlVars, regVars, prxVars>>
    /\ UNCHANGED <<lnClosed, ctlLoop, rawLoop, ctlFails, rawFails, ctlSaw, rawSaw,
                   ctlAfter, rawAfter>>

CtlOneActive ==
    /\ hostConn = MapPut(EmptyMap, hostPort(AllowedClients[1].Host), 1)
    /\ connClosed = [c \in Conns |-> FALSE]
    /\ nAccepted = 1
    /\ cert = [c \in Conns |-> IF c = 1 THEN AllowedClients[1].ID ELSE "nocert"]
    /\ pc = [c \in Conns |-> IF c = 1 THEN "active" ELSE "idle"]
    /\ client = [c \in Conns |-> IF c = 1 THEN 1 ELSE 0]
    /\ regErr = [c \in Conns |-> 0]
    /\ dialed = [c \in Conns |-> IF c = 1 THEN 1 ELSE 0]
    /\ hs = [c \in Conns |-> IF c = 1 THEN "200" ELSE "none"]

\* proxying starts on a fresh server or with one client connected
InitProxy ==
    /\ CtlInit \/ CtlOneActive
    /\ RegIdle
    /\ PrxIdle
    /\ LifeIdle

NextProxy ==
    \/ ServerClose
    \/ \E o \in Ops : ProxyStart(o)
    \/ \E o \in Ops : ProxyDo(o)
    \/ \E o \in Ops : RemoteRespond(o)
    \/ \E o \in Ops : RemoteFinish(o)
    \/ \E o \in Ops : L2RRead(o)
    \/ \E o \in Ops : L2RWrite(o)
    \/ \E o \in Ops : ProxyReturn(o)
    \/ \E o \in Ops : PeerSend(o)
    \/ \E o \in Ops : PeerClose(o)
    \/ \E o \in Ops : TransportCloseBody(o)
    \/ \E c \in Conns : ConnError(c)

SpecProxy == InitProxy /\ [][NextProxy]_vars

(***************************************************************************)
(* The accept loops of Start together with Close.                          *)
(***************************************************************************)
NextLife ==
    \/ ServerClose
    \/ RawListenerClose
    \/ ListenControlAccept
    \/ ListenControlAcceptFail
    \/ \E o \in Ops : ListenAccept(o)
    \/ ListenAcceptFail

SpecLife == Init /\ [][NextLife]_vars

(* --------------------------- proxy: claims ----------------------------- *)

\* C8: a proxy operation on a raw local connection whose remote-to-local
\* direction has ended is never left with the local connection open and no
\* step of the server's own code able to run: either the connection has
\* been closed or the operation can still take a step towards closing it,
\* whatever the local-to-remote copy is blocked on.
C8_RawLocalGetsClosed ==
    \A o \in Ops :
        (opKind[o] = "raw" /\ main[o] \in {"wait", "done"})
        => (localClosed[o] \/ ENABLED ProxyCode(o))

\* C9: a proxy operation whose dial failed with NoRouteToClient terminates:
\* either both of its tasks have finished and the local unit is closed, or
\* the server's own code can still take a step of it.
C9_NoRouteTerminates ==
    \A o \in Ops :
        (opErr[o] = "NoRouteToClient")
        => \/ /\ main[o] = "done" /\ l2r[o] = "done"
              /\ IsCloser(opKind[o]) => localClosed[o]
           \/ ENABLED ProxyCode(o)

OpState(o) ==
    <<opKind[o], opHost[o], main[o], l2r[o], peer[o], pipe[o],
      localClosed[o], opErr[o], opDialed[o], nDo[o]>>

\* C10: a step in which a proxy operation meets a failure (request
\* creation, dial, round trip, response parse or copy error) leaves every
\* registry entry and every control connection as they were, and leaves
\* every other proxy operation where it stood.
C10_FailureIsConfined ==
    [][\A o \in Ops :
         (opErr'[o] # opErr[o]) =>
            /\ hostConn' = hostConn
            /\ connClosed' = connClosed
            /\ \A p \in Ops \ {o} : OpState(p)' = OpState(p)
      ]_vars

\* two operations ran for the same host over the same control connection:
\* one failed its round trip, the other went through to the end, and the
\* control connection is still registered and open
C10_Witness ==
    \E o, p \in Ops :
        /\ o # p /\ opHost[o] = opHost[p]
        /\ opErr[o] = "RoundTrip" /\ main[o] = "done"
        /\ opErr[p] = "none" /\ main[p] = "done"
        /\ opDialed[p] # 0 /\ opDialed[o] = opDialed[p]
        /\ ~connClosed[opDialed[p]]
        /\ DialTLS(authorityAddr(opHost[p])) = opDialed[p]

\* C11: a proxy operation (and ServeHTTP, which calls it synchronously) has
\* returned, or has closed its local unit, only when both of its tasks have
\* finished: remoteToLocal has returned and localToRemote has signalled
\* localToRemoteDone (or was never started because the request could not
\* be built).
C11_ReturnsAfterBothTasks ==
    \A o \in Ops :
        (main[o] = "done" \/ localClosed[o]) =>
            /\ main[o] = "done"
            /\ l2r[o] \in {"done", "idle"}
            /\ (l2r[o] = "idle") => (opErr[o] = "RequestCreation")

\* an operation went through a round trip and returned with both tasks
\* finished and its local connection closed
C11_Witness ==
    \E o \in Ops :
        /\ main[o] = "done" /\ l2r[o] = "done" /\ localClosed[o]
        /\ opDialed[o] # 0 /\ opErr[o] = "none"

\* C12: once an accept loop has received the Accept error of its closed
\* listener it has stopped: listenControl has exited after Close closed the
\* control listener, and listen has exited after its raw listener was closed.
C12_ClosedListenerEndsLoop ==
    /\ ctlSaw => ctlLoop = "exited"
    /\ rawSaw => rawLoop = "exited"

\* C13: at most one control connection per host is registered or active and
\* un-closed: no two distinct open connections of the same client have both
\* passed addHostConn.
PassedRegistration(c) == pc[c] \in {"do", "await", "active"} /\ ~connClosed[c]

C13_SingleOwnerPerKey ==
    \A c1, c2 \in Conns :
        (/\ c1 # c2
         /\ PassedRegistration(c1)
         /\ PassedRegistration(c2)) => client[c1] # client[c2]

\* C14: deleteHostConn on a key that has no entry leaves hostConn unchanged;
\* deleting the same key again from the result changes nothing; only the
\* exact key is removed; and when deleteHostConn hands the lock back the key
\* is absent, which is the test under which the next addHostConn of that key
\* stores its connection.
C14_UnregisterIdempotent ==
    [][\A c \in Conns :
         LET k == RegKey(c) IN
         /\ (rpc[c] = "delete" /\ rpc'[c] = "delUnlock") =>
               /\ (k \notin DOMAIN hostConn) => (hostConn' = hostConn)
               /\ MapDelete(hostConn', k) = hostConn'
               /\ \A j \in DOMAIN hostConn \ {k} :
                     j \in DOMAIN hostConn' /\ hostConn'[j] = hostConn[j]
         /\ (rpc[c] = "delUnlock" /\ rpc'[c] = "deleted") =>
               /\ mu' = 0
               /\ k \notin DOMAIN hostConn'
      ]_vars

\* two callers have unregistered the same key, the second on a key without
\* entry, and a third caller has registered that key afterwards
C14_Witness ==
    \E c, d, e \in Conns :
        /\ c # d /\ RegKey(c) = RegKey(d) /\ RegKey(d) = RegKey(e)
        /\ rpc[c] = "deleted" /\ rpc[d] = "deleted"
        /\ rres[e] = "ok" /\ rpc[e] = "returned"
        /\ RegKey(e) \in DOMAIN hostConn
        /\ hostConn[RegKey(e)] = e

\* C15: whatever number of Accept calls have failed on a listener that is
\* still open, its accept loop is still running, the next connection can
\* still be accepted, and every connection accepted so far was handed to a
\* handler (handleClient for the control listener, proxy for a raw listener).
C15_AcceptFailureKeepsLoop ==
    /\ ~lnClosed =>
          /\ ctlLoop = "running"
          /\ (nAccepted < NConns) => ENABLED ListenControlAccept
          /\ (nAccepted > 0) => pc[nAccepted] # "idle"
    /\ ~rawClosed =>
          /\ rawLoop = "running"
          /\ (\E o \in Ops : main[o] = "idle") => ENABLED (\E o \in Ops : ListenAccept(o))
          /\ (rawAfter > 0) => (\E o \in Ops : main[o] # "idle" /\ opKind[o] = "raw")

\* on both open listeners a connection was accepted and dispatched after
\* MaxAcceptFails failed Accepts
C15_Witness ==
    /\ ~lnClosed /\ ~rawClosed
    /\ ctlAfter = MaxAcceptFails /\ rawAfter = MaxAcceptFails
    /\ nAccepted > 0 /\ pc[nAccepted] = "auth"
    /\ \E o \in Ops : main[o] = "do" /\ opKind[o] = "raw"

\* a step of the handleClient goroutine of connection c
HandlerStep(c) ==
    \/ HandleAuth(c)
    \/ HandleAddHostConn(c)
    \/ HandleDo(c)
    \/ HandleResp(c)
    \/ HandleRejectClose(c)
    \/ HandleRejectDelete(c)

\* C16: while the handler of one control connection waits for its handshake
\* response, listenControl can accept the next control connection, and every
\* other handler that has not reached Active or Closed can take its next
\* step.
C16_LoopNotBlockedByHandler ==
    \A c \in Conns :
        (pc[c] = "await") =>
            /\ (nAccepted < NConns) => ENABLED ListenControlAccept
            /\ \A d \in Conns \ {c} :
                  (pc[d] \in {"auth", "addHostConn", "do", "reject", "delete"}) =>
                      ENABLED HandlerStep(d)

\* connection 1 still waits for its handshake response while two connections
\* accepted after it have reached Active and Closed
C16_Witness ==
    \E c, d, e \in Conns :
        /\ c < d /\ c < e
        /\ pc[c] = "await" /\ ~connClosed[c]
        /\ pc[d] = "active"
        /\ pc[e] = "closed"

\* C17: a proxy operation calls httpClient.Do at most once: not at all when
\* the outbound request could not be built or before remoteToLocal ran,
\* exactly once otherwise, and after a transport error (no route, failed
\* round trip) the operation cannot call it again.
C17_OneRoundTrip ==
    \A o \in Ops :
        /\ nDo[o] <= 1
        /\ (main[o] \in {"idle", "do"} \/ opErr[o] = "RequestCreation") => nDo[o] = 0
        /\ (main[o] \in {"roundtrip", "transfer", "wait", "done"}
              /\ opErr[o] # "RequestCreation") => nDo[o] = 1
        /\ (opErr[o] \in {"NoRouteToClient", "RoundTrip"}) => ~ENABLED ProxyDo(o)

\* one operation ended after a failed round trip and another after finding
\* no route, each with exactly one call of httpClient.Do
C17_Witness ==
    \E o, p \in Ops :
        /\ main[o] = "done" /\ opErr[o] = "RoundTrip" /\ nDo[o] = 1
        /\ main[p] = "done" /\ opErr[p] = "NoRouteToClient" /\ nDo[p] = 1

\* C18: the step of Close that closes the control listener changes nothing
\* else: hostConn keeps every entry, no control connection is closed or moved
\* to another state, and every proxy operation is exactly where it was.
C18_CloseOnlyClosesListener ==
    [][(lnClosed' /\ ~lnClosed) =>
          /\ hostConn' = hostConn
          /\ connClosed' = connClosed
          /\ ctlVars' = ctlVars
          /\ prxVars' = prxVars
      ]_vars

\* the control listener is closed while a registered control connection is
\* still open and in the registry and a proxy operation using it is copying
C18_Witness ==
    /\ lnClosed
    /\ \E c \in Conns, o \in Ops :
          /\ pc[c] = "active" /\ ~connClosed[c]
          /\ RegisteredTo(c)
          /\ opDialed[o] = c /\ main[o] = "transfer"

\* C19: whatever localToRemote is doing, remoteToLocal can issue the round
\* trip as soon as the request is built; and a write of localToRemote into
\* the pipe returns only in a state where the transport is reading the
\* request body or the read side of the pipe has been closed.
C19_ConcurrentUnbufferedPipe ==
    /\ [](\A o \in Ops : (main[o] = "do") => ENABLED ProxyDo(o))
    /\ [][\A o \in Ops :
            (l2r[o] = "write" /\ l2r'[o] # "write") =>
                (BodyRead(o) \/ pipe[o] = "rclosed")
         ]_vars

\* an HTTP operation whose request was written through the pipe while its
\* round trip is still outstanding, and a raw operation whose write into
\* the pipe is blocked because the round trip has not been issued yet
C19_Witness ==
    \E o, p \in Ops :
        /\ opKind[o] = "http" /\ main[o] = "roundtrip"
        /\ l2r[o] = "done" /\ pipe[o] = "wclosed"
        /\ opKind[p] = "raw" /\ main[p] = "do" /\ l2r[p] = "write"
        /\ ~ENABLED L2RWrite(p)

====
